---- MODULE Spec2Model ----
(***************************************************************************)
(* Model of src/examples/python/basic_usage.py: the Snap2PassAPI client    *)
(* (process_photo, _handle_response, download_image), the retry loop       *)
(* process_with_retry, and the "Example 3" flow of main() that drives      *)
(* them (retry, then download of the processed photo).                     *)
(*                                                                         *)
(* Text is modelled as a sequence of tokens; Python's substring test       *)
(* "x in error_msg" is the contiguous-subsequence test Contains.           *)
(* An exception is a record whose kind names the raise site.               *)
(***************************************************************************)
EXTENDS Integers, Sequences, FiniteSets, TLC

\* Largest max_retries the caller passes (main passes 3).
MaxRetries == 3
\* Largest number of 8192-byte chunks the artifact is streamed in.
MaxChunks == 2

VARIABLES
    max_retries,     \* argument of process_with_retry
    photo_readable,  \* whether open(photo_path, 'rb') succeeds
    pc,              \* position inside process_with_retry
    attempt,         \* loop variable of "for attempt in range(max_retries)"
    history,         \* every process_photo call and time.sleep call, in order
    result,          \* what process_with_retry returned or raised
    main_pc,         \* position of main() around the call (Example 3)
    file,            \* the file at output_path
    file0,           \* the file at output_path before the program ran
    stream           \* the download in progress: chunks announced / written

vars == <<max_retries, photo_readable, pc, attempt, history, result,
          main_pc, file, file0, stream>>

----------------------------------------------------------------------------
\* Text helpers

\* Python's "sub in text" on token sequences.
Contains(text, sub) ==
    \E i \in 0..(Len(text) - Len(sub)) : SubSeq(text, i + 1, i + Len(sub)) = sub

RECURSIVE Pow2(_)
Pow2(n) == IF n <= 0 THEN 1 ELSE 2 * Pow2(n - 1)

----------------------------------------------------------------------------
\* The remote service's answers (inputs)

\* Server-provided error.message values; has_message = FALSE is a body with
\* no error.message.
PlainMessage == <<"bad", "token">>
Messages ==
    { PlainMessage,
      <<"Authentication", "Error">>,
      <<"Validation", "Error">>,
      <<"Insufficient", "Credits">> }

NoBody ==
    [json |-> FALSE, object |-> FALSE, has_message |-> FALSE, message |-> <<>>,
     code |-> "UNKNOWN", current_credits |-> 0,
     has_urls |-> FALSE, request_id |-> 0, text |-> <<>>]

\* A body that is not JSON (an HTML error page).
HtmlBody == [NoBody EXCEPT !.text = <<"<html>", "Bad", "Gateway">>]
\* A JSON body that is not an object: [].
ListBody == [NoBody EXCEPT !.json = TRUE]
\* {"error": {"message": m}}
ErrorBody(m) ==
    [NoBody EXCEPT !.json = TRUE, !.object = TRUE, !.has_message = TRUE,
                   !.message = m]
\* {} (or {"error": {}})
EmptyBody == [NoBody EXCEPT !.json = TRUE, !.object = TRUE]
\* {"request_id": r, "validation": {...}, "image_urls": {...}}
PhotoBody(r) ==
    [NoBody EXCEPT !.json = TRUE, !.object = TRUE, !.has_urls = TRUE,
                   !.request_id = r]

\* Statuses the service answers with: 200 and another 2xx, the three client
\* errors the client names, and a server error.
ErrorStatuses == {400, 401, 402, 500}
Statuses == {200, 201} \cup ErrorStatuses

\* What requests.post produced: a response, or an exception of the transport.
Response(s, b) == [sent |-> TRUE, arrived |-> TRUE, status_code |-> s, body |-> b]
TransportFailure ==
    [sent |-> TRUE, arrived |-> FALSE, status_code |-> 0, body |-> NoBody]
\* No request: the photo could not be read.
NotSent ==
    [sent |-> FALSE, arrived |-> FALSE, status_code |-> 0, body |-> NoBody]

Exchanges ==
    {Response(s, PhotoBody(r)) : s \in {200, 201}, r \in 1..2}
        \cup {Response(s, ErrorBody(m)) : s \in ErrorStatuses, m \in Messages}
        \cup {Response(s, EmptyBody) : s \in ErrorStatuses}
        \cup {Response(s, HtmlBody) : s \in {200, 500}}
        \cup {Response(s, ListBody) : s \in {200, 401}}
        \cup {TransportFailure}

----------------------------------------------------------------------------
\* Outcomes of a call: a returned value or a raised exception

Returned(data) ==
    [ok |-> TRUE, data |-> data, kind |-> "", msg |-> <<>>, cause |-> <<>>]
Raised(kind, msg) ==
    [ok |-> FALSE, data |-> NoBody, kind |-> kind, msg |-> msg, cause |-> <<>>]
NoResult == Raised("", <<>>)

----------------------------------------------------------------------------
\* Snap2PassAPI._handle_response (lines 83-114)

\* error.get('message', default) of data.get('error', {})
MessageOr(data, default) == IF data.has_message THEN data.message ELSE default

\* lines 98-114: the branch on response.status_code, data being the parsed body
ByStatus(status_code, data) ==
    IF status_code = 200
    THEN Returned(data)
    ELSE IF ~data.object
    THEN \* data.get on a list: AttributeError
         Raised("AttributeError",
                <<"'list'", "object", "has", "no", "attribute", "'get'">>)
    ELSE IF status_code = 401
    THEN Raised("AuthError",
                <<"Authentication", "Error", ":">>
                    \o MessageOr(data, <<"Invalid", "API", "key">>))
    ELSE IF status_code = 402
    THEN Raised("QuotaError",
                <<"Insufficient", "Credits", ":">> \o MessageOr(data, <<"None">>)
                    \o <<"(", "Credits", ":", ToString(data.current_credits), ")">>)
    ELSE IF status_code = 400
    THEN Raised("ValidationError",
                <<"Validation", "Error", "[", data.code, "]", ":">>
                    \o MessageOr(data, <<"Unknown", "error">>))
    ELSE Raised("ServerError",
                <<"API", "Error", "(", ToString(status_code), ")", ":">>
                    \o MessageOr(data, <<"Unknown", "error">>))

\* Mutant: the status is looked at before the body is parsed, so a 200 is
\* returned whatever its body.
handle_response_StatusFirst(response) ==
    IF response.status_code = 200
    THEN Returned(response.body)
    ELSE IF ~response.body.json
    THEN Raised("ProtocolError",
                <<"Invalid", "JSON", "response", ":">> \o response.body.text)
    ELSE ByStatus(response.status_code, response.body)

\* lines 93-96: parse the body, or raise "Invalid JSON response"
_handle_response(response) ==
    IF ~response.body.json
    THEN Raised("ProtocolError",
                <<"Invalid", "JSON", "response", ":">> \o response.body.text)
    ELSE ByStatus(response.status_code, response.body)

\* Snap2PassAPI.process_photo (lines 49-64): read the photo, post it, hand the
\* response to _handle_response.  It writes nothing locally.
process_photo(readable, exchange) ==
    IF ~readable
    THEN Raised("OSError", <<"No", "such", "file", "or", "directory">>)
    ELSE IF ~exchange.arrived
    THEN Raised("TransportError", <<"Connection", "aborted">>)
    ELSE _handle_response(exchange)

----------------------------------------------------------------------------
\* process_with_retry (lines 162-196)

\* line 184: the texts that mark a client error
ClientErrorMarkers ==
    { <<"Authentication", "Error">>,
      <<"Validation", "Error">>,
      <<"Insufficient", "Credits">> }

\* Mutant: 'Insufficient Credits' is missing from the list.
IsClientError_NoCredits(error_msg) ==
    \E x \in ClientErrorMarkers \ {<<"Insufficient", "Credits">>} :
        Contains(error_msg, x)

\* line 184: any(x in error_msg for x in [...])
IsClientError(error_msg) ==
    \E x \in ClientErrorMarkers : Contains(error_msg, x)

\* Mutant: range(max_retries + 1)
InRange_Inclusive(a, n) == 0 <= a /\ a <= n

\* line 177: attempt in range(max_retries)
InRange(a, n) == 0 <= a /\ a < n

\* Mutant: attempt < max_retries
MayRetry_OffByOne(a, n) == a < n

\* line 188: attempt < max_retries - 1
MayRetry(a, n) == a < n - 1

\* Mutant: 2 ** (attempt + 1)
wait_time_Doubled(a) == Pow2(a + 1)

\* line 189: wait_time = 2 ** attempt
wait_time(a) == Pow2(a)

\* line 196
MaxRetriesExceeded == Raised("MaxRetriesExceeded", <<"Max", "retries", "exceeded">>)

\* Mutant: the result of process_photo is not returned, so a success is
\* handled like a failure without a client-error marker.
AfterAttempt_NoReturn(out, a, n) ==
    IF ~out.ok /\ IsClientError(out.msg) THEN "NonRetryableFailure"
    ELSE IF MayRetry(a, n) THEN "Waiting"
    ELSE "Exhausted"

\* lines 178-194: where one iteration of the loop ends, given what
\* process_photo produced.
AfterAttempt(out, a, n) ==
    IF out.ok THEN "Succeeded"                              \* 179 return
    ELSE IF IsClientError(out.msg) THEN "NonRetryableFailure"  \* 185 raise
    ELSE IF MayRetry(a, n) THEN "Waiting"                   \* 192 time.sleep
    ELSE "Exhausted"                                        \* 194 raise

AttemptEvent(x, out) ==
    [type |-> "attempt", exchange |-> x, out |-> out, seconds |-> 0]
SleepEvent(t) ==
    [type |-> "sleep", exchange |-> NotSent, out |-> NoResult, seconds |-> t]

Terminal == {"Succeeded", "NonRetryableFailure", "Exhausted", "MaxRetriesExceeded"}

\* The for statement takes the next value of range(max_retries), or the loop
\* ends and line 196 raises.
LoopTo(a) ==
    IF InRange(a, max_retries)
    THEN /\ pc' = "Attempting"
         /\ attempt' = a
         /\ result' = result
    ELSE /\ pc' = "MaxRetriesExceeded"
         /\ attempt' = attempt
         /\ result' = MaxRetriesExceeded

\* main line 284 calls process_with_retry; the loop starts (line 177).
Enter ==
    /\ pc = "Idle"
    /\ LoopTo(0)
    /\ UNCHANGED <<max_retries, photo_readable, history, main_pc, file, file0, stream>>

\* One iteration of the loop body, lines 178-194, up to the return, the raise
\* or the call of time.sleep.
Attempt ==
    /\ pc = "Attempting"
    /\ \E x \in (IF photo_readable THEN Exchanges ELSE {NotSent}) :
         LET out  == process_photo(photo_readable, x)
             next == AfterAttempt(out, attempt, max_retries)
         IN /\ pc' = next
            /\ history' =
                 IF next = "Waiting"
                 THEN history \o <<AttemptEvent(x, out), SleepEvent(wait_time(attempt))>>
                 ELSE Append(history, AttemptEvent(x, out))
            /\ result' = IF next = "Waiting" THEN result ELSE out
    /\ UNCHANGED <<max_retries, photo_readable, attempt, main_pc, file, file0, stream>>

\* time.sleep returns; line 193 continue.
Wake ==
    /\ pc = "Waiting"
    /\ LoopTo(attempt + 1)
    /\ UNCHANGED <<max_retries, photo_readable, history, main_pc, file, file0, stream>>

----------------------------------------------------------------------------
\* main, Example 3 (lines 283-296)

\* lines 291-293 read response['validation']['score'] and
\* response['image_urls']['output']
Usable(data) == data.json /\ data.object /\ data.has_urls

\* process_with_retry has returned or raised: main goes on to the download, or
\* to its except clause (line 295) on an exception, a KeyError or a TypeError.
MainAfterRetry ==
    /\ main_pc = "retry"
    /\ pc \in Terminal
    /\ main_pc' = IF result.ok /\ Usable(result.data) THEN "download" ELSE "except"
    /\ UNCHANGED <<max_retries, photo_readable, pc, attempt, history, result,
                   file, file0, stream>>

----------------------------------------------------------------------------
\* Snap2PassAPI.download_image (lines 66-81)

NoFile == [exists |-> FALSE, content |-> <<>>]
OldFile == [exists |-> TRUE, content |-> <<0>>]

NoStream == [state |-> "none", chunks |-> 0, written |-> 0]

\* lines 74-75 fail: requests.get raises, or raise_for_status does.
DownloadRefused ==
    /\ main_pc = "download"
    /\ main_pc' = "except"
    /\ stream' = [stream EXCEPT !.state = "refused"]
    /\ UNCHANGED <<max_retries, photo_readable, pc, attempt, history, result,
                   file, file0>>

\* lines 74-77 succeed: the response is good and open(output_path, 'wb')
\* creates the file or truncates it.
DownloadOpen ==
    /\ main_pc = "download"
    /\ \E n \in 0..MaxChunks :
         stream' = [state |-> "streaming", chunks |-> n, written |-> 0]
    /\ file' = [exists |-> TRUE, content |-> <<>>]
    /\ main_pc' = "streaming"
    /\ UNCHANGED <<max_retries, photo_readable, pc, attempt, history, result, file0>>

\* lines 78-79: the next chunk arrives and is written.
DownloadChunk ==
    /\ main_pc = "streaming"
    /\ stream.written < stream.chunks
    /\ file' = [file EXCEPT !.content = Append(@, stream.written + 1)]
    /\ stream' = [stream EXCEPT !.written = @ + 1]
    /\ UNCHANGED <<max_retries, photo_readable, pc, attempt, history, result,
                   main_pc, file0>>

\* line 78: iter_content raises (the connection breaks); the with statement
\* closes the file and the exception reaches main's except clause.
DownloadBreak ==
    /\ main_pc = "streaming"
    /\ stream.written < stream.chunks
    /\ stream' = [stream EXCEPT !.state = "broken"]
    /\ main_pc' = "except"
    /\ UNCHANGED <<max_retries, photo_readable, pc, attempt, history, result,
                   file, file0>>

\* lines 78-81: the stream ends; the file is closed, download_image returns.
DownloadFinish ==
    /\ main_pc = "streaming"
    /\ stream.written = stream.chunks
    /\ stream' = [stream EXCEPT !.state = "complete"]
    /\ main_pc' = "done"
    /\ UNCHANGED <<max_retries, photo_readable, pc, attempt, history, result,
                   file, file0>>

----------------------------------------------------------------------------

Init ==
    /\ max_retries \in -1..MaxRetries
    /\ photo_readable \in BOOLEAN
    /\ pc = "Idle"
    /\ attempt = 0
    /\ history = <<>>
    /\ result = NoResult
    /\ main_pc = "retry"
    /\ file \in {NoFile, OldFile}
    /\ file0 = file
    /\ stream = NoStream

Next ==
    \/ Enter
    \/ Attempt
    \/ Wake
    \/ MainAfterRetry
    \/ DownloadRefused
    \/ DownloadOpen
    \/ DownloadChunk
    \/ DownloadBreak
    \/ DownloadFinish

Spec == Init /\ [][Next]_vars

\* The program is one sequential thread: whenever a step is possible it is
\* eventually taken (time.sleep and the network calls return).
FairSpec == Spec /\ WF_vars(Next)

----------------------------------------------------------------------------
\* Properties

\* The process_photo calls made so far, and the positions of history.
Attempts == SelectSeq(history, LAMBDA e : e.type = "attempt")
Sleeps == SelectSeq(history, LAMBDA e : e.type = "sleep")
IsAttempt(i) == history[i].type = "attempt"
\* How many attempts lie in history[1..i].
AttemptsUpTo(i) == Cardinality({j \in 1..i : IsAttempt(j)})

NonRetryableKinds == {"AuthError", "ValidationError", "QuotaError"}
RetryableKinds == {"ServerError", "TransportError"}

Failed(e, kinds) == ~e.out.ok /\ e.out.kind \in kinds

\* C1: an attempt that fails with AuthError, ValidationError or QuotaError is
\* the last event of process_with_retry (no further attempt, no wait), and
\* the caller receives that very error; if it is the first attempt, exactly
\* one attempt was made.
C1_NonRetryablePropagates ==
    \A i \in 1..Len(history) :
        (IsAttempt(i) /\ Failed(history[i], NonRetryableKinds))
            => /\ i = Len(history)
               /\ pc = "NonRetryableFailure"
               /\ result = history[i].out

C1_Witness ==
    /\ max_retries = MaxRetries
    /\ pc = "NonRetryableFailure"
    /\ Len(history) = 1
    /\ result.kind = "QuotaError"

\* C2 (as claimed): when every attempt failed with a retryable error,
\* process_with_retry has made exactly max_retries attempts and fails with
\* RetryExhausted, an error other than the underlying one, wrapping the last
\* underlying failure.
C2_RetryExhausted ==
    (/\ max_retries >= 1
     /\ pc \in Terminal
     /\ \A k \in 1..Len(Attempts) : Failed(Attempts[k], RetryableKinds))
        => /\ Len(Attempts) = max_retries
           /\ ~result.ok
           /\ result.kind = "RetryExhausted"
           /\ result.cause = <<Attempts[Len(Attempts)].out>>

\* C3: if the first k-1 attempts failed with retryable errors and the k-th
\* succeeded, exactly k attempts were made, nothing follows the k-th, and
\* process_with_retry returned the parsed body of the k-th response.
C3_SuccessAfterRetries ==
    \A k \in 1..Len(Attempts) :
        (/\ \A j \in 1..(k - 1) : Failed(Attempts[j], RetryableKinds)
         /\ Attempts[k].out.ok)
            => /\ Len(Attempts) = k
               /\ k <= max_retries
               /\ history[Len(history)] = Attempts[k]
               /\ pc = "Succeeded"
               /\ result.ok
               /\ result.data = Attempts[k].exchange.body

C3_Witness ==
    /\ pc = "Succeeded"
    /\ Len(Attempts) = 3
    /\ Attempts[1].out.kind = "ServerError"
    /\ Attempts[2].out.kind = "TransportError"
    /\ result.data = PhotoBody(2)

\* C4: attempts and waits alternate, starting with an attempt (no wait before
\* the first attempt, exactly one between two consecutive attempts); the
\* first wait is 1 time unit and every later one twice the one before, i.e.
\* the wait before attempt i (0-indexed) is 2^(i-1); and once
\* process_with_retry has ended the last event is an attempt, not a wait.
C4_Backoff ==
    /\ \A i \in 1..Len(history) :
          /\ IsAttempt(i) <=> (i % 2 = 1)
          /\ (i = 2) => history[i].seconds = 1
          /\ (i % 2 = 0 /\ i > 2) => history[i].seconds = 2 * history[i - 2].seconds
    /\ (pc \in Terminal /\ history # <<>>) => IsAttempt(Len(history))
    /\ (pc = "Attempting" /\ history # <<>>) => ~IsAttempt(Len(history))

C4_Witness ==
    /\ pc \in Terminal
    /\ Len(Attempts) = 3
    /\ Len(Sleeps) = 2
    /\ Sleeps[1].seconds = 1
    /\ Sleeps[2].seconds = 2

\* C5 (as claimed): a response with a parseable JSON body is classified by
\* its status alone: 2xx returns the parsed body, 401 is AuthError, 402
\* QuotaError, 400 ValidationError, any other status ServerError.
C5_StatusClassification ==
    \A i \in 1..Len(history) :
        (IsAttempt(i) /\ history[i].exchange.arrived /\ history[i].exchange.body.json)
            => LET s   == history[i].exchange.status_code
                   out == history[i].out
               IN /\ (s \in 200..299) => (out.ok /\ out.data = history[i].exchange.body)
                  /\ (s = 401) => Failed(history[i], {"AuthError"})
                  /\ (s = 402) => Failed(history[i], {"QuotaError"})
                  /\ (s = 400) => Failed(history[i], {"ValidationError"})
                  /\ (s \notin (200..299) \cup {400, 401, 402})
                        => Failed(history[i], {"ServerError"})

\* C6: a response whose body is not JSON makes process_photo fail with
\* ProtocolError, whatever the status (200 included), and what
\* process_with_retry returns is never such a body.
C6_MalformedBody ==
    /\ \A i \in 1..Len(history) :
          (IsAttempt(i) /\ history[i].exchange.arrived
                /\ ~history[i].exchange.body.json)
            => Failed(history[i], {"ProtocolError"})
    /\ result.ok => result.data.json

C6_Witness ==
    \E i \in 1..Len(history) :
        /\ IsAttempt(i)
        /\ history[i].exchange = Response(200, HtmlBody)
        /\ history[i].out.kind = "ProtocolError"

\* C7 (as claimed): after an attempt that failed with ServerError, with fewer
\* than max_retries attempts made, another attempt follows (its backoff wait
\* has begun), whatever the server's message says.
C7_ServerErrorRetried ==
    \A i \in 1..Len(history) :
        (/\ IsAttempt(i)
         /\ Failed(history[i], {"ServerError"})
         /\ AttemptsUpTo(i) < max_retries)
            => i < Len(history)

\* C8: for max_retries >= 1, process_with_retry moves Idle -> Attempting ->
\* {Succeeded, NonRetryableFailure, Exhausted, Attempting again after the
\* wait}; it makes at most max_retries attempts, at least one before it
\* ends; it ends in Succeeded, NonRetryableFailure or Exhausted, eventually;
\* and once ended its state and its history never change.
Transitions ==
    { <<"Idle", "Attempting">>,
      <<"Attempting", "Succeeded">>,
      <<"Attempting", "NonRetryableFailure">>,
      <<"Attempting", "Exhausted">>,
      <<"Attempting", "Waiting">>,
      <<"Waiting", "Attempting">> }

C8_RetryStateMachine ==
    /\ [](max_retries >= 1 =>
            /\ Len(Attempts) <= max_retries
            /\ pc \in Terminal =>
                 /\ pc \in {"Succeeded", "NonRetryableFailure", "Exhausted"}
                 /\ Len(Attempts) >= 1)
    /\ [][(max_retries >= 1 /\ pc' # pc) => <<pc, pc'>> \in Transitions]_vars
    /\ [][(pc \in Terminal) => (pc' = pc /\ history' = history /\ result' = result)]_vars
    /\ (max_retries >= 1 =>
            <>(pc \in {"Succeeded", "NonRetryableFailure", "Exhausted"}))

C8_Witness ==
    /\ max_retries = MaxRetries
    /\ pc = "Exhausted"
    /\ Len(Attempts) = max_retries
    /\ main_pc = "except"

\* C9 (as claimed): process_photo writes no file, and whenever download_image
\* fails, before or during the streaming of chunks, the file at output_path
\* is as it was before the program ran.
C9_NoPartialFile ==
    /\ stream.state = "none" => file = file0
    /\ stream.state \in {"refused", "broken"} => file = file0

\* C10: with max_retries <= 0, process_with_retry makes no attempt and no
\* wait and raises 'Max retries exceeded', which carries no cause; with
\* max_retries >= 1 that error is never raised.
C10_MaxRetriesExceeded ==
    /\ (max_retries <= 0 /\ pc # "Idle") =>
          /\ pc = "MaxRetriesExceeded"
          /\ history = <<>>
          /\ ~result.ok
          /\ result.msg = <<"Max", "retries", "exceeded">>
          /\ result.cause = <<>>
    /\ max_retries >= 1 =>
          /\ pc # "MaxRetriesExceeded"
          /\ result.msg # <<"Max", "retries", "exceeded">>

C10_Witness ==
    /\ max_retries = 0
    /\ pc = "MaxRetriesExceeded"
    /\ main_pc = "except"

====
